---- MODULE Spec2Model ----
(***************************************************************************)
(* Model of src/pages/Home.tsx: the Home component's state (image,         *)
(* analysis, loading, error), the startup effect loadDefaultContent, the   *)
(* file-input handler handleImageUpload with its FileReader callbacks,     *)
(* handleAnalyze with the pending analyzeImage promises, and the pure      *)
(* text formatter formatAnalysis.                                          *)
(*                                                                         *)
(* Every action is one run-to-completion task of the browser's event loop: *)
(* an event handler, a FileReader callback or the continuation of an await.*)
(* React batches the set-state calls of one task, so the new values are    *)
(* the last ones written in that task.                                     *)
(***************************************************************************)
EXTENDS Integers, Sequences, FiniteSets, TLC

\* ------------------------------------------------------------------ bounds
\* FileReader reads started by uploads in one behaviour.
MaxReads == 2
\* analyzeImage calls started in one behaviour.
MaxCalls == 3
\* Length of the texts given to formatAnalysis.
MaxLen == 4

\* --------------------------------------------------------------- constants
\* JavaScript null (the initial image and error, and reader.result after a
\* failed read).  No data URL and no message equals it.
Null == "null"

\* 20 * 1024 * 1024, the size limit of handleImageUpload.
MAX_SIZE == 20 * 1024 * 1024

DEFAULT_ANALYSIS == "1. Species Identification: ..."

MSG_DEFAULT == "Failed to load default image"
MSG_TYPE == "Please upload a valid image file"
MSG_SIZE == "Image size should be less than 20MB"
MSG_READ == "Failed to read the image file. Please try again."
MSG_GENERIC == "Failed to analyze image. Please try again."

\* ------------------------------------------------------------------ inputs
\* Declared media types and byte lengths of the files the user can select.
FileTypes == {"image/png", "text/plain", "image"}
FileSizes == {MAX_SIZE - 1, MAX_SIZE, MAX_SIZE + 1}
Files == [type : FileTypes, size : FileSizes]

\* Texts analyzeImage can resolve with.
Texts == {"1. Oak", "- Shape: oval"}
\* What analyzeImage can reject with: an Error carrying a message, or a
\* value that is not an Error.
Rejections == {[isError |-> TRUE, message |-> "API key not valid"],
               [isError |-> TRUE, message |-> ""],
               [isError |-> FALSE, message |-> "quota"]}

VARIABLES
    image,      \* useState: data URL shown in the preview, or Null
    analysis,   \* useState: raw analysis text, "" initially
    loading,    \* useState: BOOLEAN
    error,      \* useState: message, or Null
    inputValue, \* the file input's current selection: <<>> or <<file>>
    boot,       \* position of loadDefaultContent
    readers,    \* FileReaders of handleImageUpload whose callbacks are pending
    calls,      \* analyzeImage promises not yet settled
    nReads,     \* reads started so far
    nCalls,     \* calls started so far
    last,       \* history: the task that ran last, with its argument
    text,       \* formatAnalysis: its argument
    records     \* formatAnalysis: its result, or NotCalled before the call

ctl == <<image, analysis, loading, error, inputValue, boot, readers, calls,
         nReads, nCalls, last>>
fmt == <<text, records>>
vars == <<image, analysis, loading, error, inputValue, boot, readers, calls,
          nReads, nCalls, last, text, records>>

\* ----------------------------------------------------------------- helpers
\* String.prototype.startsWith
StartsWith(s, p) == Len(s) >= Len(p) /\ SubSeq(s, 1, Len(p)) = p

\* FileReader.readAsDataURL: "data:<type>;base64,<payload>".  The payload is
\* the base64 text of the file's bytes, which the model identifies by the
\* file's byte length.
DataURL(type, size) == "data:" \o type \o ";base64," \o ToString(size)

\* validate with the two checks in the other order.
validate_SizeFirst(file) ==
    IF file.size > MAX_SIZE THEN MSG_SIZE
    ELSE IF ~StartsWith(file.type, "image/") THEN MSG_TYPE
    ELSE "ok"

\* The checks of handleImageUpload, in the order of the code.
validate(file) ==
    IF ~StartsWith(file.type, "image/") THEN MSG_TYPE
    ELSE IF file.size > MAX_SIZE THEN MSG_SIZE
    ELSE "ok"

\* err instanceof Error ? err.message : '<generic>'
errorMessage(err) == IF err.isError THEN err.message ELSE MSG_GENERIC

\* ------------------------------------------------------------------- state
\* The value of records before formatAnalysis has returned.
NotCalled == <<[kind |-> "notCalled"]>>

InitCtl ==
    /\ image = Null
    /\ analysis = ""
    /\ loading = FALSE
    /\ error = Null
    /\ inputValue = <<>>
    /\ boot = "mount"
    /\ readers = {}
    /\ calls = {}
    /\ nReads = 0
    /\ nCalls = 0
    /\ last = [op |-> "mount"]

InitFmt ==
    /\ text = <<>>
    /\ records = NotCalled

Init == InitCtl /\ InitFmt

\* The blob fetched from DEFAULT_IMAGE: a JPEG of some length.
DefaultBlob == [type |-> "image/jpeg", size |-> 4096]

\* Every started read ends in one handleAnalyze call, so a read is started,
\* and the Identify button is clicked, only while the calls already made and
\* the calls the pending reads will make leave room under MaxCalls.
CallBudget == nCalls + Cardinality(readers) < MaxCalls

\* ------------------------------------------------- loadDefaultContent
\* The effect runs once after the first commit, before any user event is
\* handled: setLoading(true), then fetch(DEFAULT_IMAGE) is awaited.
LoadDefaultContent ==
    /\ boot = "mount"
    /\ loading' = TRUE
    /\ boot' = "fetch"
    /\ last' = [op |-> "LoadDefaultContent"]
    /\ UNCHANGED <<image, analysis, error, inputValue, readers, calls,
                   nReads, nCalls, text, records>>

\* DefaultCatch without its setLoading(false).
DefaultCatch_KeepsLoading ==
    /\ error' = MSG_DEFAULT
    /\ boot' = "done"
    /\ UNCHANGED <<image, analysis, loading, inputValue, readers, calls,
                   nReads, nCalls, text, records>>

\* The catch block of loadDefaultContent.
DefaultCatch ==
    /\ error' = MSG_DEFAULT
    /\ loading' = FALSE
    /\ boot' = "done"
    /\ UNCHANGED <<image, analysis, inputValue, readers, calls,
                   nReads, nCalls, text, records>>

\* fetch settles: it rejects, or resolves with response.ok false (both end
\* in the catch block), or resolves with response.ok true and
\* response.blob() is awaited.
FetchSettled(outcome) ==
    /\ boot = "fetch"
    /\ last' = [op |-> "FetchSettled"]
    /\ IF outcome = "ok"
         THEN /\ boot' = "blob"
              /\ UNCHANGED <<image, analysis, loading, error, inputValue,
                             readers, calls, nReads, nCalls, text, records>>
         ELSE DefaultCatch

\* response.blob() settles: on success the FileReader is created, its
\* callbacks are set and readAsDataURL(blob) starts.
BlobSettled(outcome) ==
    /\ boot = "blob"
    /\ last' = [op |-> "BlobSettled"]
    /\ IF outcome = "ok"
         THEN /\ boot' = "read"
              /\ UNCHANGED <<image, analysis, loading, error, inputValue,
                             readers, calls, nReads, nCalls, text, records>>
         ELSE DefaultCatch

\* reader.onerror of loadDefaultContent.  A failed read fires error and
\* then loadend, so onloadend is still to run.
DefaultReaderError ==
    /\ boot = "read"
    /\ error' = MSG_DEFAULT
    /\ loading' = FALSE
    /\ boot' = "readError"
    /\ last' = [op |-> "DefaultReaderError"]
    /\ UNCHANGED <<image, analysis, inputValue, readers, calls,
                   nReads, nCalls, text, records>>

\* reader.onloadend of loadDefaultContent: after a successful read
\* reader.result is the data URL, after a failed one it is null.
DefaultReaderLoadEnd ==
    /\ boot \in {"read", "readError"}
    /\ image' = IF boot = "read"
                 THEN DataURL(DefaultBlob.type, DefaultBlob.size)
                 ELSE Null
    /\ analysis' = DEFAULT_ANALYSIS
    /\ loading' = FALSE
    /\ boot' = "done"
    /\ last' = [op |-> "DefaultReaderLoadEnd"]
    /\ UNCHANGED <<error, inputValue, readers, calls,
                   nReads, nCalls, text, records>>

\* ------------------------------------------------------- handleAnalyze
\* handleAnalyze without its setError(null).
handleAnalyze_KeepsError(imageData) ==
    /\ loading' = TRUE
    /\ error' = error
    /\ calls' = calls \cup {[id |-> nCalls + 1, imageData |-> imageData]}
    /\ nCalls' = nCalls + 1

\* handleAnalyze up to its await: setLoading(true), setError(null) and the
\* call of analyzeImage(imageData, leafPrompt), whose promise is pending.
handleAnalyze(imageData) ==
    /\ loading' = TRUE
    /\ error' = Null
    /\ calls' = calls \cup {[id |-> nCalls + 1, imageData |-> imageData]}
    /\ nCalls' = nCalls + 1

\* The promise of call c resolves with result: setAnalysis(result), then
\* the finally block.
AnalyzeResolved(c, result) ==
    /\ c \in calls
    /\ analysis' = result
    /\ loading' = FALSE
    /\ calls' = calls \ {c}
    /\ last' = [op |-> "AnalyzeResolved", result |-> result]
    /\ UNCHANGED <<image, error, inputValue, boot, readers,
                   nReads, nCalls, text, records>>

\* AnalyzeRejected clearing the analysis as well.
AnalyzeRejected_ClearsAnalysis(c, err) ==
    /\ c \in calls
    /\ error' = errorMessage(err)
    /\ analysis' = ""
    /\ loading' = FALSE
    /\ calls' = calls \ {c}
    /\ last' = [op |-> "AnalyzeRejected", err |-> err]
    /\ UNCHANGED <<image, inputValue, boot, readers,
                   nReads, nCalls, text, records>>

\* AnalyzeRejected without the finally block's setLoading(false).
AnalyzeRejected_NoFinally(c, err) ==
    /\ c \in calls
    /\ error' = errorMessage(err)
    /\ calls' = calls \ {c}
    /\ last' = [op |-> "AnalyzeRejected", err |-> err]
    /\ UNCHANGED <<image, analysis, loading, inputValue, boot, readers,
                   nReads, nCalls, text, records>>

\* The promise of call c rejects with err: the catch block, then the
\* finally block.
AnalyzeRejected(c, err) ==
    /\ c \in calls
    /\ error' = errorMessage(err)
    /\ loading' = FALSE
    /\ calls' = calls \ {c}
    /\ last' = [op |-> "AnalyzeRejected", err |-> err]
    /\ UNCHANGED <<image, analysis, inputValue, boot, readers,
                   nReads, nCalls, text, records>>

\* The Identify button: rendered only when image is set, disabled while
\* loading; onClick calls handleAnalyze(image).
IdentifyClick ==
    /\ boot # "mount"
    /\ image # Null
    /\ ~loading
    /\ CallBudget
    /\ handleAnalyze(image)
    /\ last' = [op |-> "IdentifyClick"]
    /\ UNCHANGED <<image, analysis, inputValue, boot, readers,
                   nReads, text, records>>

\* --------------------------------------------------- handleImageUpload
\* handleImageUpload clearing the previous result when validation fails.
handleImageUpload_ClearsResult(files) ==
    /\ boot # "mount"
    /\ files # inputValue
    /\ last' = [op |-> "handleImageUpload", files |-> files]
    /\ IF files = <<>>
         THEN /\ inputValue' = files
              /\ UNCHANGED <<image, analysis, loading, error, boot, readers,
                             calls, nReads, nCalls, text, records>>
         ELSE LET file == files[1] IN
              IF validate(file) # "ok"
              THEN /\ error' = validate(file)
                   /\ analysis' = ""
                   /\ inputValue' = files
                   /\ UNCHANGED <<image, loading, boot, readers,
                                  calls, nReads, nCalls, text, records>>
              ELSE /\ nReads < MaxReads
                   /\ CallBudget
                   /\ readers' = readers \cup
                          {[id |-> nReads + 1, file |-> file, state |-> "loading"]}
                   /\ nReads' = nReads + 1
                   /\ inputValue' = <<>>
                   /\ UNCHANGED <<image, analysis, loading, error, boot,
                                  calls, nCalls, text, records>>

\* The change event of the file input with e.target.files = files (<<>> or
\* <<file>>).  The browser fires it only when the selection differs from
\* the input's current one.
handleImageUpload(files) ==
    /\ boot # "mount"
    /\ files # inputValue
    /\ last' = [op |-> "handleImageUpload", files |-> files]
    /\ IF files = <<>>
         THEN /\ inputValue' = files
              /\ UNCHANGED <<image, analysis, loading, error, boot, readers,
                             calls, nReads, nCalls, text, records>>
         ELSE LET file == files[1] IN
              IF validate(file) # "ok"
              THEN /\ error' = validate(file)
                   /\ inputValue' = files
                   /\ UNCHANGED <<image, analysis, loading, boot, readers,
                                  calls, nReads, nCalls, text, records>>
              ELSE /\ nReads < MaxReads
                   /\ CallBudget
                   /\ readers' = readers \cup
                          {[id |-> nReads + 1, file |-> file, state |-> "loading"]}
                   /\ nReads' = nReads + 1
                   /\ inputValue' = <<>>
                   /\ UNCHANGED <<image, analysis, loading, error, boot,
                                  calls, nCalls, text, records>>

\* reader.onerror of handleImageUpload: the read of r failed.  onloadend
\* is still to run.
ReaderError(r) ==
    /\ r \in readers
    /\ r.state = "loading"
    /\ error' = MSG_READ
    /\ readers' = (readers \ {r}) \cup {[r EXCEPT !.state = "error"]}
    /\ last' = [op |-> "ReaderError"]
    /\ UNCHANGED <<image, analysis, loading, inputValue, boot, calls,
                   nReads, nCalls, text, records>>

\* reader.onloadend of handleImageUpload: reader.result is the data URL
\* after a successful read and null after a failed one; setImage,
\* setError(null), handleAnalyze(base64String).
ReaderLoadEnd(r) ==
    /\ r \in readers
    /\ LET base64String == IF r.state = "loading"
                            THEN DataURL(r.file.type, r.file.size)
                            ELSE Null
       IN /\ image' = base64String
          /\ handleAnalyze(base64String)
    /\ readers' = readers \ {r}
    /\ last' = [op |-> IF r.state = "loading" THEN "ReaderLoadEnd"
                                              ELSE "ReaderLoadEndAfterError"]
    /\ UNCHANGED <<analysis, inputValue, boot, nReads, text, records>>

\* ---------------------------------------------------------------- system
Next ==
    \/ LoadDefaultContent
    \/ \E o \in {"ok", "notOk", "rejected"} : FetchSettled(o)
    \/ \E o \in {"ok", "rejected"} : BlobSettled(o)
    \/ DefaultReaderError
    \/ DefaultReaderLoadEnd
    \/ \E f \in Files : handleImageUpload(<<f>>)
    \/ handleImageUpload(<<>>)
    \/ \E r \in readers : ReaderError(r)
    \/ \E r \in readers : ReaderLoadEnd(r)
    \/ IdentifyClick
    \/ \E c \in calls, t \in Texts : AnalyzeResolved(c, t)
    \/ \E c \in calls, e \in Rejections : AnalyzeRejected(c, e)

Spec == Init /\ [][Next]_vars

\* Every pending operation completes: the effect runs after the first
\* commit, fetch and response.blob() settle, every FileReader fires its
\* callbacks and every analyzeImage promise settles.  Nothing obliges the
\* user to select a file or to click.
Fairness ==
    /\ WF_vars(LoadDefaultContent)
    /\ WF_vars(\E o \in {"ok", "notOk", "rejected"} : FetchSettled(o))
    /\ WF_vars(\E o \in {"ok", "rejected"} : BlobSettled(o))
    /\ WF_vars(DefaultReaderError \/ DefaultReaderLoadEnd)
    /\ WF_vars(\E r \in readers : ReaderError(r) \/ ReaderLoadEnd(r))
    /\ WF_vars(\E c \in calls :
                  \/ \E t \in Texts : AnalyzeResolved(c, t)
                  \/ \E e \in Rejections : AnalyzeRejected(c, e))

SpecFair == Init /\ [][Next]_vars /\ Fairness

\* ------------------------------------------------------ formatAnalysis
\* Texts are sequences of characters.  The alphabet has a digit, the
\* characters the patterns look for, a markup character, a blank, a letter
\* and the line break.
Chars == {"1", ".", "-", ":", "*", " ", "a", "\n"}

\* \d of the regular expressions.
IsDigit(c) == c \in {"0", "1", "2", "3", "4", "5", "6", "7", "8", "9"}
\* White space of String.prototype.trim and of \s.
IsSpace(c) == c \in {" ", "\t", "\n", "\r"}
\* The character class of /[*_#`]/.  A string of the module cannot hold the
\* backquote, which is written "BACKQUOTE".
IsMarkup(c) == c \in {"*", "_", "#", "BACKQUOTE"}

\* String.prototype.split(sep) for a one-character separator.
RECURSIVE split(_, _)
split(s, sep) ==
    IF \E i \in 1..Len(s) : s[i] = sep
    THEN LET i == CHOOSE j \in 1..Len(s) :
                      s[j] = sep /\ \A k \in 1..(j - 1) : s[k] # sep
         IN <<SubSeq(s, 1, i - 1)>> \o split(SubSeq(s, i + 1, Len(s)), sep)
    ELSE <<s>>

\* Array.prototype.join(sep).
RECURSIVE join(_, _)
join(parts, sep) ==
    IF Len(parts) = 0 THEN <<>>
    ELSE IF Len(parts) = 1 THEN parts[1]
    ELSE parts[1] \o <<sep>> \o join(Tail(parts), sep)

RECURSIVE trimStart(_)
trimStart(s) ==
    IF Len(s) > 0 /\ IsSpace(s[1]) THEN trimStart(Tail(s)) ELSE s

RECURSIVE trimEnd(_)
trimEnd(s) ==
    IF Len(s) > 0 /\ IsSpace(s[Len(s)])
    THEN trimEnd(SubSeq(s, 1, Len(s) - 1)) ELSE s

\* String.prototype.trim.
trim(s) == trimEnd(trimStart(s))

\* cleanLine without the removal of the markup characters.
cleanLine_KeepsMarkup(line) == trim(line)

\* line.replace(/[*_#`]/g, '').trim()
cleanLine(line) == trim(SelectSeq(line, LAMBDA c : ~IsMarkup(c)))

\* Length of the longest prefix of s made of digits.
RECURSIVE digits(_)
digits(s) ==
    IF Len(s) > 0 /\ IsDigit(s[1]) THEN 1 + digits(Tail(s)) ELSE 0

\* /^\d+\./.test(s)
isHeader(s) ==
    LET n == digits(s) IN n >= 1 /\ Len(s) > n /\ s[n + 1] = "."

\* s.replace(/^\d+\.\s*/, '') for an s that isHeader.
headerTitle(s) == trimStart(SubSeq(s, digits(s) + 2, Len(s)))

\* The element of a map callback that returned null.
NullElement == [kind |-> "null"]

\* formatLine with the plain list item tested before the labeled one.
formatLine_BulletFirst(line, index) ==
    LET clean == cleanLine(line) IN
    IF clean = <<>> THEN NullElement
    ELSE IF isHeader(clean)
    THEN [key |-> index, kind |-> "SectionHeader", title |-> headerTitle(clean)]
    ELSE IF clean[1] = "-"
    THEN [key |-> index, kind |-> "Bullet", text |-> trim(Tail(clean))]
    ELSE IF clean[1] = "-" /\ (\E i \in 1..Len(clean) : clean[i] = ":")
    THEN LET parts == split(Tail(clean), ":")
         IN [key |-> index, kind |-> "LabeledField",
             label |-> trim(parts[1]),
             value |-> trim(join(Tail(parts), ":"))]
    ELSE [key |-> index, kind |-> "Paragraph", text |-> clean]

\* formatLine taking only the part between the first and the second colon
\* as the value.
formatLine_SecondPartOnly(line, index) ==
    LET clean == cleanLine(line) IN
    IF clean = <<>> THEN NullElement
    ELSE IF isHeader(clean)
    THEN [key |-> index, kind |-> "SectionHeader", title |-> headerTitle(clean)]
    ELSE IF clean[1] = "-" /\ (\E i \in 1..Len(clean) : clean[i] = ":")
    THEN LET parts == split(Tail(clean), ":")
         IN [key |-> index, kind |-> "LabeledField",
             label |-> trim(parts[1]),
             value |-> trim(parts[2])]
    ELSE IF clean[1] = "-"
    THEN [key |-> index, kind |-> "Bullet", text |-> trim(Tail(clean))]
    ELSE [key |-> index, kind |-> "Paragraph", text |-> clean]

\* The callback of text.split('\n').map: the element rendered for one
\* line, with the line's index as its key.
formatLine(line, index) ==
    LET clean == cleanLine(line) IN
    IF clean = <<>> THEN NullElement
    ELSE IF isHeader(clean)
    THEN [key |-> index, kind |-> "SectionHeader", title |-> headerTitle(clean)]
    ELSE IF clean[1] = "-" /\ (\E i \in 1..Len(clean) : clean[i] = ":")
    THEN LET parts == split(Tail(clean), ":")
         IN [key |-> index, kind |-> "LabeledField",
             label |-> trim(parts[1]),
             value |-> trim(join(Tail(parts), ":"))]
    ELSE IF clean[1] = "-"
    THEN [key |-> index, kind |-> "Bullet", text |-> trim(Tail(clean))]
    ELSE [key |-> index, kind |-> "Paragraph", text |-> clean]

\* text.split('\n').map(...).filter(Boolean)
formatAnalysis(t) ==
    LET lines == split(t, "\n")
        mapped == [i \in 1..Len(lines) |-> formatLine(lines[i], i - 1)]
    IN SelectSeq(mapped, LAMBDA el : el # NullElement)

\* All texts of at most n characters.
RECURSIVE TextsUpTo(_)
TextsUpTo(n) ==
    IF n = 0 THEN {<<>>}
    ELSE LET shorter == TextsUpTo(n - 1)
         IN shorter \cup {Append(s, c) : s \in shorter, c \in Chars}

InitFormat ==
    /\ InitCtl
    /\ text \in TextsUpTo(MaxLen)
    /\ records = NotCalled

\* The render calls formatAnalysis on the text.
FormatAnalysis ==
    /\ records = NotCalled
    /\ records' = formatAnalysis(text)
    /\ UNCHANGED <<ctl, text>>

NextFormat == FormatAnalysis

SpecFormat == InitFormat /\ [][NextFormat]_vars

\* ================================================================== claims
\* The media types of FileTypes that do not begin with "image/".
NonImageTypes == {"text/plain", "image"}

\* The last task was handleImageUpload for a file outside the policy:
\* a wrong media type, or more than 20 MiB.
RejectedUpload(l) ==
    /\ l.op = "handleImageUpload"
    /\ l.files # <<>>
    /\ (l.files[1].type \in NonImageTypes \/ l.files[1].size > 20971520)

\* C1 (as stated): at most one analyzeImage call is in flight in every
\* reachable state.
C1_AtMostOneCallInFlight == Cardinality(calls) <= 1

\* C2: when an analysis call fails, the failure path of handleAnalyze leaves
\* analysis and image as they were, so the text of an earlier successful call
\* is still there, and error holds the failure's message.
C2_FailureKeepsAnalysis ==
    [][last'.op = "AnalyzeRejected" =>
          /\ analysis' = analysis
          /\ image' = image
          /\ error' = (IF last'.err.isError THEN last'.err.message
                       ELSE "Failed to analyze image. Please try again.")]_vars

\* One upload whose call succeeded, then a re-analyze click whose call has
\* just failed.
C2_Witness ==
    /\ last.op = "AnalyzeRejected"
    /\ nReads = 1 /\ nCalls = 2 /\ calls = {}
    /\ analysis \in Texts
    /\ image # Null
    /\ error = "API key not valid"

\* C3: a selected file that fails validation sets error to the validation
\* message, leaves image, analysis and loading unchanged, and starts neither
\* a file read nor an analysis call.
C3_RejectedUploadOnlySetsError ==
    [][RejectedUpload(last') =>
          /\ error' = (IF last'.files[1].type \in NonImageTypes
                       THEN "Please upload a valid image file"
                       ELSE "Image size should be less than 20MB")
          /\ image' = image
          /\ analysis' = analysis
          /\ loading' = loading
          /\ readers' = readers /\ nReads' = nReads
          /\ calls' = calls /\ nCalls' = nCalls]_vars

\* A file has just been rejected while an earlier result is on display.
C3_Witness ==
    /\ RejectedUpload(last)
    /\ error = "Image size should be less than 20MB"
    /\ image # Null
    /\ analysis \in Texts
    /\ ~loading

\* C4 (as stated): when the read of an uploaded file has failed and both of
\* its callbacks have run, error holds the read-failure message, the image
\* is not replaced and no analysis call has been started.
C4_ReadFailureEndsInFailed ==
    [][last'.op = "ReaderLoadEndAfterError" =>
          /\ error' = "Failed to read the image file. Please try again."
          /\ image' = image
          /\ calls' = calls /\ nCalls' = nCalls]_vars

\* C5 (as stated): loading is true only while an analysis call is pending.
C5_LoadingOnlyWhileCallPending == loading => calls # {}

\* loadDefaultContent has started and its last callback has not yet run.
BootPending == boot \in {"fetch", "blob", "read", "readError"}

\* C5 (amended): loading is true only while an analysis call is pending or
\* the startup load of the default content has not yet completed.
C5_LoadingOnlyWhilePending == loading => (calls # {} \/ BootPending)

\* Loading during the startup load, with no analysis call made.
C5_Witness == loading /\ calls = {} /\ nCalls = 0 /\ boot = "blob"

\* C6 (as stated): whenever an analysis call completes successfully,
\* analysis is the text of that call and error is empty.
C6_SuccessEndsInLoaded ==
    [][last'.op = "AnalyzeResolved" =>
          /\ analysis' = last'.result
          /\ error' = Null]_vars

\* C7: validation applies its rules in order and the first failure wins:
\* a media type that does not begin with "image/" is InvalidType whatever the
\* size, otherwise more than 20 MiB is TooLarge, otherwise the file is
\* accepted and its read starts; exactly 20 MiB is accepted.
C7_ValidationOrder ==
    [][(last'.op = "handleImageUpload" /\ last'.files # <<>>) =>
          LET file == last'.files[1] IN
          IF file.type \in NonImageTypes
          THEN error' = "Please upload a valid image file" /\ readers' = readers
          ELSE IF file.size \in {20971521}
          THEN error' = "Image size should be less than 20MB" /\ readers' = readers
          ELSE /\ file.size \in {20971519, 20971520}
               /\ error' = error
               /\ \E r \in readers' \ readers : r.file = file]_vars

\* A file with a wrong media type that is also too large has been rejected
\* for its type.
C7_Witness ==
    /\ last.op = "handleImageUpload"
    /\ last.files = <<[type |-> "text/plain", size |-> 20971521]>>
    /\ error = "Please upload a valid image file"

\* Index (from 0) of the line that holds position p of the text.
LineOf(p) == Cardinality({q \in 1..(p - 1) : text[q] = "\n"})

\* The lines that hold a character other than markup and white space.
ContentLines ==
    {LineOf(p) : p \in {q \in 1..Len(text) : text[q] \in {"1", ".", "-", ":", "a"}}}

\* C8: formatAnalysis yields exactly one record per line that is non-empty
\* after the markup characters and the surrounding white space are removed,
\* in the order of those lines, and none for the other lines.
C8_OneRecordPerContentLine ==
    records # NotCalled =>
        /\ Len(records) = Cardinality(ContentLines)
        /\ \A i \in 1..Len(records) : records[i].key \in ContentLines
        /\ \A i, j \in 1..Len(records) :
               i < j => records[i].key < records[j].key

\* Two records from three lines, the one in the middle dropped.
C8_Witness ==
    /\ records # NotCalled
    /\ Len(records) = 2
    /\ records[1].key = 0
    /\ records[2].key = 2

\* The cleaned line has one or more digits and then a period at its start.
StartsNumbered(s) ==
    \E n \in 1..(Len(s) - 1) :
        /\ \A i \in 1..n : s[i] \in {"0", "1", "2", "3", "4", "5", "6", "7", "8", "9"}
        /\ s[n + 1] = "."

\* The kind the classification order gives to a cleaned non-empty line.
ExpectedKind(s) ==
    IF StartsNumbered(s) THEN "SectionHeader"
    ELSE IF s[1] = "-" /\ ":" \in {s[i] : i \in 1..Len(s)} THEN "LabeledField"
    ELSE IF s[1] = "-" THEN "Bullet"
    ELSE "Paragraph"

\* C9: every record has the kind of the first pattern its cleaned line
\* matches, in the order SectionHeader, LabeledField, Bullet, Paragraph; a
\* Paragraph has the cleaned line as its text.
C9_ClassificationOrder ==
    records # NotCalled =>
        \A i \in 1..Len(records) :
            LET s == cleanLine(split(text, "\n")[records[i].key + 1]) IN
            /\ records[i].kind = ExpectedKind(s)
            /\ records[i].kind = "Paragraph" => records[i].text = s

\* A dashed line with a colon has become a labeled field.
C9_Witness ==
    /\ records # NotCalled
    /\ text = <<"-", "a", ":", "1">>
    /\ records = <<[key |-> 0, kind |-> "LabeledField",
                    label |-> <<"a">>, value |-> <<"1">>]>>

\* C10 (as stated): after every handled file selection the file input's
\* selection is empty.
C10_SelectionResetAfterUpload ==
    [][last'.op = "handleImageUpload" => inputValue' = <<>>]_vars

\* The step ends loadDefaultContent in failure: the catch block has run
\* (fetch rejected or not ok, response.blob() rejected), or the last callback
\* of a failed read of the blob has run.
BootFailedStep ==
    /\ boot # "done" /\ boot' = "done"
    /\ \/ last'.op \in {"FetchSettled", "BlobSettled"}
       \/ last'.op = "DefaultReaderLoadEnd" /\ boot = "readError"

\* C11 (as stated): when the startup load fails, error is set, loading is
\* false, and image and analysis keep their values: the default analysis is
\* not installed.
C11_BootFailureEndsInFailed ==
    [][BootFailedStep =>
          /\ error' = "Failed to load default image"
          /\ loading' = FALSE
          /\ image' = image
          /\ analysis' = analysis]_vars

\* C13 (as stated): while an analysis call is in flight loading is true.
C13_LoadingWhileCallInFlight == calls # {} => loading

\* Position of the first colon of s.
FirstColon(s) ==
    CHOOSE p \in 1..Len(s) : s[p] = ":" /\ \A q \in 1..(p - 1) : s[q] # ":"

\* C14: a labeled field is split at the first colon of its cleaned line only:
\* the label is the trimmed text between the leading dash and that colon and
\* holds no colon, the value is the trimmed text after it, later colons
\* included.
C14_SplitAtFirstColon ==
    records # NotCalled =>
        \A i \in 1..Len(records) :
            records[i].kind = "LabeledField" =>
                LET s == cleanLine(split(text, "\n")[records[i].key + 1])
                    p == FirstColon(s)
                IN /\ s[1] = "-"
                   /\ records[i].label = trim(SubSeq(s, 2, p - 1))
                   /\ \A q \in 1..Len(records[i].label) :
                          records[i].label[q] # ":"
                   /\ records[i].value = trim(SubSeq(s, p + 1, Len(s)))

\* A labeled field whose value keeps a second colon.
C14_Witness ==
    /\ records # NotCalled
    /\ text = <<"-", "a", ":", ":">>
    /\ records = <<[key |-> 0, kind |-> "LabeledField",
                    label |-> <<"a">>, value |-> <<":">>]>>

\* The step is the entry to handleAnalyze, from the callback of an upload's
\* read or from a click on the Identify button.
AttemptStarts ==
    last'.op \in {"ReaderLoadEnd", "ReaderLoadEndAfterError", "IdentifyClick"}

\* C15 (as stated): at the start of each analysis attempt error and analysis
\* are both cleared before the call is made.
C15_AttemptClearsErrorAndAnalysis ==
    [][AttemptStarts => error' = Null /\ analysis' = ""]_vars

\* C15 (amended): at the start of each analysis attempt error is cleared
\* before the call is made, and analysis keeps its value.
C15_AttemptClearsErrorOnly ==
    [][AttemptStarts =>
          /\ error' = Null
          /\ analysis' = analysis
          /\ nCalls' = nCalls + 1]_vars

\* A re-analyze has just started over the text of an earlier call: a call
\* is pending, error is empty and the earlier text is still there.
C15_Witness ==
    /\ last.op = "IdentifyClick"
    /\ calls # {}
    /\ error = Null
    /\ analysis \in Texts

\* C16 (as stated): when an analysis call fails, error is the message of
\* the Error it failed with, or the generic message when it did not fail
\* with an Error, and error is not left empty.
C16_FailureMessageNeverEmpty ==
    [][last'.op = "AnalyzeRejected" =>
          /\ error' = (IF last'.err.isError THEN last'.err.message
                       ELSE "Failed to analyze image. Please try again.")
          /\ error' # ""
          /\ error' # Null]_vars

\* C17 (as stated): a text stored by an analysis call is the text of a call
\* made with the image that is now stored in image.
C17_AnalysisBelongsToImage ==
    [][last'.op = "AnalyzeResolved" =>
          \A c \in calls \ calls' : c.imageData = image']_vars

\* C18 (as stated): once the callback of a user upload has set image and
\* started its analysis, the completion of loadDefaultContent leaves image,
\* analysis and loading as they are.
C18_BootKeepsUserContent ==
    [][(boot # "done" /\ boot' = "done" /\ nCalls > 0) =>
          /\ image' = image
          /\ analysis' = analysis
          /\ loading' = loading]_vars

\* The last task was a failure: a rejected selection, a failed read of an
\* upload, a failed analysis call, or a failure of the startup load.
Failure ==
    \/ RejectedUpload(last)
    \/ last.op \in {"ReaderError", "AnalyzeRejected", "DefaultReaderError"}
    \/ last.op \in {"FetchSettled", "BlobSettled"} /\ boot = "done"

\* Nothing is pending and the controls are usable: loading is false, so the
\* Identify button is enabled whenever image is set; the file input is
\* never disabled.
Quiescent ==
    /\ ~loading
    /\ calls = {}
    /\ readers = {}
    /\ boot = "done"

\* C12: when every pending fetch, read and analysis call completes, every
\* failure is followed by a state with loading false and nothing pending.
C12_FailureLeadsToRetry == Failure ~> Quiescent

\* A call has failed and the controller is at rest with an image to
\* re-analyze.
C12_Witness ==
    /\ last.op = "AnalyzeRejected"
    /\ Quiescent
    /\ image # Null

====
